---- MODULE Spec2Model ----
(***************************************************************************)
(* Connection lifecycle of github.com/oduortoni/websocket (package ws):    *)
(* WebsocketHandler.ServeHTTP validates the session, upgrades the request, *)
(* builds a Client and spawns HandleClient, the per-connection read loop.  *)
(*                                                                         *)
(* Each inbound request r has two threads of control: the net/http         *)
(* goroutine running ServeHTTP (position hpc[r]) and, once spawned, the    *)
(* goroutine running HandleClient (position lpc[r]).  The collaborators    *)
(* (SessionValidator, MessageHandler) and the remote peer are the          *)
(* environment: their results are drawn from small sets.                   *)
(***************************************************************************)
EXTENDS Integers, Sequences, FiniteSets, TLC

\* ---------------------------------------------------------------- bounds
\* Number of inbound requests served concurrently.
MaxRequests == 2
\* Number of frames the remote peers send, over all connections.
MaxFrames == 2

\* ------------------------------------------------------ program constants
\* make(chan []byte, 256)
SendCap == 256
\* http.StatusUnauthorized, http.StatusInternalServerError
StatusUnauthorized == 401
StatusInternalServerError == 500
\* The status the README documents for a failed upgrade.
StatusBadRequest == 400
\* The status gorilla's Upgrader writes on a successful handshake.
StatusSwitchingProtocols == 101

Requests == 1..MaxRequests
\* Identity values a validator can return; 0 is the zero-valued Identity
\* (ws.SessionInfo{} as returned by the demo validator).
Identities == {0, 1}
\* Raw frame payloads.
Frames == {"a", "b"}
\* Outbound messages.
Messages == {"m"}

NoSession == -1
NoClient == [ID |-> NoSession, Conn |-> 0, Send |-> <<>>]

VARIABLES
    hpc,        \* ServeHTTP position per request
    lpc,        \* HandleClient position per request
    status,     \* HTTP status written to the ResponseWriter (0: none yet)
    serveErr,   \* ServeHTTP's local err: "unset", "nil", "validate", "upgrade"
    session,    \* session.ClientID returned by Validate (NoSession: none)
    connOpen,   \* the upgraded transport exists and has not been closed
    closeCalls, \* number of Conn.Close calls made on the transport
    client,     \* the Client built by NewClient (NoClient: none)
    created,    \* number of NewClient calls made for the request
    spawned,    \* number of HandleClient goroutines started for the request
    inbox,      \* frames that arrived on the transport and are not yet read
    readLog,    \* frames ReadMessage returned, in order
    handleLog,  \* frames passed to MessageHandler.Handle, in order
    err,        \* HandleClient's local err: "nil", "read", "handler" or
                \* "persister" (a persister error the handler returned)
    sendResult, \* outcome of the latest non-blocking send on client.Send
    collab,     \* the collaborators passed to NewWebSocketHandler
    wsh,        \* the *WebsocketHandler that NewWebSocketHandler returned
    used        \* per request, the collaborators the core has used

vars == <<hpc, lpc, status, serveErr, session, connOpen, closeCalls, client, created,
          spawned, inbox, readLog, handleLog, err, sendResult, collab, wsh,
          used>>

httpVars == <<hpc, status, serveErr, session>>
loopVars == <<lpc, readLog, handleLog, err>>
peerVars == <<inbox>>
\* The handler and its collaborators are set once, before any request.
wiring == <<collab, wsh>>

\* Implementations of the three collaborator interfaces an application may
\* pass to NewWebSocketHandler.
SessionValidators == {"validator1", "validator2"}
MessageHandlers == {"handler1", "handler2"}
EnvelopePersisters == {"persister1", "persister2"}

\* No collaborator (a nil interface value).
NoCollaborator == "nil"

\* Nothing used yet for a request.  corePersisterCalls counts the
\* SaveEnvelope and ConfirmDelivery calls made by the core itself.
NoUse ==
    [validator |-> NoCollaborator, messager |-> NoCollaborator,
     persister |-> NoCollaborator, handledBy |-> NoCollaborator,
     corePersisterCalls |-> 0]

\* NewWebSocketHandler leaving the EnvelopePersister field unset.
NewWebSocketHandler_NoPersister(validator, messeger, persister) ==
    [SessionValidator |-> validator,
     MessageHandler |-> messeger,
     EnvelopePersister |-> NoCollaborator]

\* &WebsocketHandler{SessionValidator: validator, MessageHandler: messeger,
\*                   EnvelopePersister: persister}
NewWebSocketHandler(validator, messeger, persister) ==
    [SessionValidator |-> validator,
     MessageHandler |-> messeger,
     EnvelopePersister |-> persister]

\* The application builds its handler from one collaborator of each kind.
Wire(validator, messeger, persister) ==
    /\ collab = [validator |-> validator, messager |-> messeger,
                 persister |-> persister]
    /\ wsh = NewWebSocketHandler(validator, messeger, persister)
    /\ used = [r \in Requests |-> NoUse]

\* Every request is yet to be served.
InitRequests ==
    /\ hpc = [r \in Requests |-> "validate"]
    /\ lpc = [r \in Requests |-> "none"]
    /\ status = [r \in Requests |-> 0]
    /\ serveErr = [r \in Requests |-> "unset"]
    /\ session = [r \in Requests |-> NoSession]
    /\ connOpen = [r \in Requests |-> FALSE]
    /\ closeCalls = [r \in Requests |-> 0]
    /\ client = [r \in Requests |-> NoClient]
    /\ created = [r \in Requests |-> 0]
    /\ spawned = [r \in Requests |-> 0]
    /\ inbox = [r \in Requests |-> <<>>]
    /\ readLog = [r \in Requests |-> <<>>]
    /\ handleLog = [r \in Requests |-> <<>>]
    /\ err = [r \in Requests |-> "nil"]
    /\ sendResult = [r \in Requests |-> "none"]

\* main(): one validator, one message handler, one persister.
Init ==
    /\ InitRequests
    /\ Wire("validator1", "handler1", "persister1")

\* Any choice of collaborators.
InitAny ==
    /\ InitRequests
    /\ \E v \in SessionValidators, m \in MessageHandlers, p \in EnvelopePersisters :
          Wire(v, m, p)

\* ------------------------------------------------------------- ServeHTTP

\* Validate with the return after http.Error left out: the rejected request
\* goes on to the upgrade.
Validate_NoReturn(r) ==
    /\ hpc[r] = "validate"
    /\ \/ \E id \in Identities :
            /\ session' = [session EXCEPT ![r] = id]
            /\ serveErr' = [serveErr EXCEPT ![r] = "nil"]
            /\ hpc' = [hpc EXCEPT ![r] = "upgrade"]
            /\ UNCHANGED status
       \/ /\ serveErr' = [serveErr EXCEPT ![r] = "validate"]
          /\ status' = [status EXCEPT ![r] = StatusUnauthorized]
          /\ hpc' = [hpc EXCEPT ![r] = "upgrade"]
          /\ UNCHANGED session
    /\ UNCHANGED <<connOpen, closeCalls, client, created, spawned, sendResult>>
    /\ UNCHANGED loopVars
    /\ UNCHANGED peerVars
    /\ used' = [used EXCEPT ![r].validator = wsh.SessionValidator]
    /\ UNCHANGED wiring

\* session, err := h.SessionValidator.Validate(r); on err: 401 and return.
Validate(r) ==
    /\ hpc[r] = "validate"
    /\ \/ \E id \in Identities :
            /\ session' = [session EXCEPT ![r] = id]
            /\ serveErr' = [serveErr EXCEPT ![r] = "nil"]
            /\ hpc' = [hpc EXCEPT ![r] = "upgrade"]
            /\ UNCHANGED status
       \/ /\ serveErr' = [serveErr EXCEPT ![r] = "validate"]
          /\ status' = [status EXCEPT ![r] = StatusUnauthorized]
          /\ hpc' = [hpc EXCEPT ![r] = "done"]
          /\ UNCHANGED session
    /\ UNCHANGED <<connOpen, closeCalls, client, created, spawned, sendResult>>
    /\ UNCHANGED loopVars
    /\ UNCHANGED peerVars
    /\ used' = [used EXCEPT ![r].validator = wsh.SessionValidator]
    /\ UNCHANGED wiring

\* Upgrade with the return after http.Error left out: a Client is built on
\* the failed handshake.
Upgrade_NoReturn(r) ==
    /\ hpc[r] = "upgrade"
    /\ \/ /\ connOpen' = [connOpen EXCEPT ![r] = TRUE]
          /\ serveErr' = [serveErr EXCEPT ![r] = "nil"]
          /\ status' = [status EXCEPT ![r] = StatusSwitchingProtocols]
          /\ hpc' = [hpc EXCEPT ![r] = "accept"]
       \/ /\ serveErr' = [serveErr EXCEPT ![r] = "upgrade"]
          /\ status' = [status EXCEPT ![r] = StatusInternalServerError]
          /\ hpc' = [hpc EXCEPT ![r] = "accept"]
          /\ UNCHANGED connOpen
    /\ UNCHANGED <<session, closeCalls, client, created, spawned, sendResult>>
    /\ UNCHANGED loopVars
    /\ UNCHANGED peerVars
    /\ UNCHANGED <<wiring, used>>

\* conn, err := upgrader.Upgrade(w, r, nil); on err: 500 and return.
Upgrade(r) ==
    /\ hpc[r] = "upgrade"
    /\ \/ /\ connOpen' = [connOpen EXCEPT ![r] = TRUE]
          /\ serveErr' = [serveErr EXCEPT ![r] = "nil"]
          /\ status' = [status EXCEPT ![r] = StatusSwitchingProtocols]
          /\ hpc' = [hpc EXCEPT ![r] = "accept"]
       \/ /\ serveErr' = [serveErr EXCEPT ![r] = "upgrade"]
          /\ status' = [status EXCEPT ![r] = StatusInternalServerError]
          /\ hpc' = [hpc EXCEPT ![r] = "done"]
          /\ UNCHANGED connOpen
    /\ UNCHANGED <<session, closeCalls, client, created, spawned, sendResult>>
    /\ UNCHANGED loopVars
    /\ UNCHANGED peerVars
    /\ UNCHANGED <<wiring, used>>

\* NewClient naming the Client with a freshly generated Identity, as
\* NewIdentity() would produce: a value no validator returned.
NewClient_Fresh(id, conn) == [ID |-> id + 2, Conn |-> conn, Send |-> <<>>]

\* &Client{ID: Identity(id), Conn: conn, Send: make(chan []byte, 256), ...}
NewClient(id, conn) == [ID |-> id, Conn |-> conn, Send |-> <<>>]

\* client := NewClient(session.ClientID, conn)
\* defer client.Conn.Close()
\* go HandleClient(client, h.MessageHandler, h.EnvelopePersister)
Accept(r) ==
    /\ hpc[r] = "accept"
    /\ client' = [client EXCEPT ![r] = NewClient(session[r], r)]
    /\ created' = [created EXCEPT ![r] = @ + 1]
    /\ lpc' = [lpc EXCEPT ![r] = "read"]
    /\ spawned' = [spawned EXCEPT ![r] = @ + 1]
    /\ hpc' = [hpc EXCEPT ![r] = "return"]
    /\ UNCHANGED <<status, serveErr, session, connOpen, closeCalls,
                   sendResult, readLog, handleLog, err>>
    /\ UNCHANGED peerVars
    /\ used' = [used EXCEPT ![r].messager = wsh.MessageHandler,
                             ![r].persister = wsh.EnvelopePersister]
    /\ UNCHANGED wiring

\* Conn.Close(): closes the transport; every call is counted.
Close(r) ==
    /\ connOpen' = [connOpen EXCEPT ![r] = FALSE]
    /\ closeCalls' = [closeCalls EXCEPT ![r] = @ + 1]

\* ServeReturn that waits for the read loop before returning, as calling
\* HandleClient without go would.
ServeReturn_WaitLoop(r) ==
    /\ hpc[r] = "return"
    /\ lpc[r] = "done"
    /\ Close(r)
    /\ hpc' = [hpc EXCEPT ![r] = "done"]
    /\ UNCHANGED <<status, serveErr, session, client, created, spawned,
                   sendResult>>
    /\ UNCHANGED loopVars
    /\ UNCHANGED peerVars
    /\ UNCHANGED <<wiring, used>>

\* ServeHTTP returns: the deferred client.Conn.Close() runs.
ServeReturn(r) ==
    /\ hpc[r] = "return"
    /\ Close(r)
    /\ hpc' = [hpc EXCEPT ![r] = "done"]
    /\ UNCHANGED <<status, serveErr, session, client, created, spawned,
                   sendResult>>
    /\ UNCHANGED loopVars
    /\ UNCHANGED peerVars
    /\ UNCHANGED <<wiring, used>>

ServeHTTP(r) ==
    \/ Validate(r)
    \/ Upgrade(r)
    \/ Accept(r)
    \/ ServeReturn(r)

\* ----------------------------------------------------------- HandleClient

\* ReadOk that drops the frame it read when the previous Handle call failed:
\* the frame is consumed and the loop reads again without dispatching it.
ReadOk_SkipAfterError(r) ==
    /\ lpc[r] = "read"
    /\ inbox[r] # <<>>
    /\ readLog' = [readLog EXCEPT ![r] = Append(@, Head(inbox[r]))]
    /\ inbox' = [inbox EXCEPT ![r] = Tail(@)]
    /\ err' = [err EXCEPT ![r] = "nil"]
    /\ lpc' = [lpc EXCEPT ![r] = IF err[r] = "handler" THEN "read" ELSE "handle"]
    /\ UNCHANGED <<handleLog, connOpen, closeCalls, client,
                   created, spawned, sendResult>>
    /\ UNCHANGED httpVars
    /\ UNCHANGED <<wiring, used>>

\* ReadOk dispatching with go messager.Handle(client, message): the loop
\* is back at ReadMessage while the Handle call is still outstanding.
ReadOk_Async(r) ==
    /\ lpc[r] = "read"
    /\ inbox[r] # <<>>
    /\ readLog' = [readLog EXCEPT ![r] = Append(@, Head(inbox[r]))]
    /\ inbox' = [inbox EXCEPT ![r] = Tail(@)]
    /\ err' = [err EXCEPT ![r] = "nil"]
    /\ lpc' = [lpc EXCEPT ![r] = "read"]
    /\ UNCHANGED <<handleLog, connOpen, closeCalls, client,
                   created, spawned, sendResult>>
    /\ UNCHANGED httpVars
    /\ UNCHANGED <<wiring, used>>

\* _, message, err := client.Conn.ReadMessage() returning a frame.  A frame
\* that already arrived may still be returned from the read buffer after
\* the transport was closed locally.
ReadOk(r) ==
    /\ lpc[r] = "read"
    /\ inbox[r] # <<>>
    /\ readLog' = [readLog EXCEPT ![r] = Append(@, Head(inbox[r]))]
    /\ inbox' = [inbox EXCEPT ![r] = Tail(@)]
    /\ err' = [err EXCEPT ![r] = "nil"]
    /\ lpc' = [lpc EXCEPT ![r] = "handle"]
    /\ UNCHANGED <<handleLog, connOpen, closeCalls, client,
                   created, spawned, sendResult>>
    /\ UNCHANGED httpVars
    /\ UNCHANGED <<wiring, used>>

\* ReadErr tearing down every connection's transport, as a loop sharing one
\* transport (or a process-wide shutdown on error) would.
ReadErr_CloseAll(r) ==
    /\ lpc[r] = "read"
    /\ err' = [err EXCEPT ![r] = "read"]
    /\ lpc' = [lpc EXCEPT ![r] = "close"]
    /\ connOpen' = [q \in Requests |-> FALSE]
    /\ UNCHANGED <<readLog, handleLog, closeCalls, client, created,
                   spawned, sendResult>>
    /\ UNCHANGED httpVars
    /\ UNCHANGED peerVars
    /\ UNCHANGED <<wiring, used>>

\* ReadErr with continue in place of break: the loop reads again after a
\* failed read.
ReadErr_Continue(r) ==
    /\ lpc[r] = "read"
    /\ err' = [err EXCEPT ![r] = "read"]
    /\ lpc' = [lpc EXCEPT ![r] = "read"]
    /\ UNCHANGED <<readLog, handleLog, connOpen, closeCalls, client, created,
                   spawned, sendResult>>
    /\ UNCHANGED httpVars
    /\ UNCHANGED peerVars
    /\ UNCHANGED <<wiring, used>>

\* ReadMessage returning an error: the peer closed, the network failed, a
\* frame violated the protocol, or the transport was closed locally.  Any
\* read may end this way.
\* if err != nil { break }
ReadErr(r) ==
    /\ lpc[r] = "read"
    /\ err' = [err EXCEPT ![r] = "read"]
    /\ lpc' = [lpc EXCEPT ![r] = "close"]
    /\ UNCHANGED <<readLog, handleLog, connOpen, closeCalls, client, created,
                   spawned, sendResult>>
    /\ UNCHANGED httpVars
    /\ UNCHANGED peerVars
    /\ UNCHANGED <<wiring, used>>

\* Handle with break in place of continue: a handler error leaves the loop.
Handle_BreakOnError(r) ==
    /\ lpc[r] = "handle"
    /\ handleLog' = [handleLog EXCEPT ![r] = Append(@, readLog[r][Len(readLog[r])])]
    /\ \E e \in {"nil", "handler"} :
          /\ err' = [err EXCEPT ![r] = e]
          /\ lpc' = [lpc EXCEPT ![r] = IF e = "handler" THEN "close" ELSE "read"]
    /\ UNCHANGED <<readLog, connOpen, closeCalls, client, created, spawned,
                   sendResult>>
    /\ UNCHANGED httpVars
    /\ UNCHANGED peerVars
    /\ used' = [used EXCEPT ![r].handledBy = used[r].messager]
    /\ UNCHANGED wiring

\* err = messager.Handle(client, message); if err != nil { continue }
\* Either way the loop goes back to ReadMessage.
Handle(r) ==
    /\ lpc[r] = "handle"
    /\ handleLog' = [handleLog EXCEPT ![r] = Append(@, readLog[r][Len(readLog[r])])]
    /\ \E e \in {"nil", "handler"} : err' = [err EXCEPT ![r] = e]
    /\ lpc' = [lpc EXCEPT ![r] = "read"]
    /\ UNCHANGED <<readLog, connOpen, closeCalls, client, created, spawned,
                   sendResult>>
    /\ UNCHANGED httpVars
    /\ UNCHANGED peerVars
    /\ used' = [used EXCEPT ![r].handledBy = used[r].messager]
    /\ UNCHANGED wiring

\* LoopClose without the Close call: the loop function returns and leaves
\* the transport as it is.
LoopClose_NoClose(r) ==
    /\ lpc[r] = "close"
    /\ lpc' = [lpc EXCEPT ![r] = "done"]
    /\ UNCHANGED <<connOpen, closeCalls, readLog, handleLog, err, client,
                   created, spawned, sendResult>>
    /\ UNCHANGED httpVars
    /\ UNCHANGED peerVars
    /\ UNCHANGED <<wiring, used>>

\* HandlePersisterError where the core reacts to the persister's failure
\* itself: it calls persister.SaveEnvelope once more and, as the envelope
\* was not saved, leaves the loop.
HandlePersisterError_RetryAndBreak(r) ==
    /\ lpc[r] = "handle"
    /\ handleLog' = [handleLog EXCEPT ![r] = Append(@, readLog[r][Len(readLog[r])])]
    /\ err' = [err EXCEPT ![r] = "persister"]
    /\ lpc' = [lpc EXCEPT ![r] = "close"]
    /\ used' = [used EXCEPT ![r].handledBy = used[r].messager,
                             ![r].corePersisterCalls = @ + 1]
    /\ UNCHANGED <<readLog, connOpen, closeCalls, client, created, spawned,
                   sendResult>>
    /\ UNCHANGED httpVars
    /\ UNCHANGED peerVars
    /\ UNCHANGED wiring

\* err = messager.Handle(client, message) where the MessageHandler called
\* the EnvelopePersister, the persister failed and the handler returns
\* that error: if err != nil { continue }.  HandleClient itself makes no
\* call on its persister parameter.
HandlePersisterError(r) ==
    /\ lpc[r] = "handle"
    /\ handleLog' = [handleLog EXCEPT ![r] = Append(@, readLog[r][Len(readLog[r])])]
    /\ err' = [err EXCEPT ![r] = "persister"]
    /\ lpc' = [lpc EXCEPT ![r] = "read"]
    /\ used' = [used EXCEPT ![r].handledBy = used[r].messager]
    /\ UNCHANGED <<readLog, connOpen, closeCalls, client, created, spawned,
                   sendResult>>
    /\ UNCHANGED httpVars
    /\ UNCHANGED peerVars
    /\ UNCHANGED wiring

\* After the loop: client.Conn.Close()
LoopClose(r) ==
    /\ lpc[r] = "close"
    /\ Close(r)
    /\ lpc' = [lpc EXCEPT ![r] = "done"]
    /\ UNCHANGED <<readLog, handleLog, err, client, created, spawned,
                   sendResult>>
    /\ UNCHANGED httpVars
    /\ UNCHANGED peerVars
    /\ UNCHANGED <<wiring, used>>

HandleClient(r) ==
    \/ ReadOk(r)
    \/ ReadErr(r)
    \/ Handle(r)
    \/ LoopClose(r)

\* ------------------------------------------------------------ environment

RECURSIVE SumOver(_, _)
SumOver(f, S) ==
    IF S = {} THEN 0
    ELSE LET x == CHOOSE y \in S : TRUE IN f[x] + SumOver(f, S \ {x})

\* Frames the peers have sent so far: those read and those still pending.
FramesSent ==
    SumOver([r \in Requests |-> Len(readLog[r]) + Len(inbox[r])], Requests)

\* The remote peer sends one frame on an established transport.
PeerSend(r, f) ==
    /\ connOpen[r]
    /\ FramesSent < MaxFrames
    /\ inbox' = [inbox EXCEPT ![r] = Append(@, f)]
    /\ UNCHANGED <<connOpen, closeCalls, client, created, spawned,
                   sendResult>>
    /\ UNCHANGED httpVars
    /\ UNCHANGED loopVars
    /\ UNCHANGED <<wiring, used>>

\* TrySend as a plain blocking send, client.Send <- msg: on a full queue the
\* producer waits.
TrySend_Blocking(r, m) ==
    /\ client[r] # NoClient
    /\ Len(client[r].Send) < SendCap
    /\ client' = [client EXCEPT ![r].Send = Append(@, m)]
    /\ sendResult' = [sendResult EXCEPT ![r] = "queued"]
    /\ UNCHANGED <<connOpen, closeCalls, created, spawned>>
    /\ UNCHANGED httpVars
    /\ UNCHANGED loopVars
    /\ UNCHANGED peerVars
    /\ UNCHANGED <<wiring, used>>

\* The documented producer pattern on a Client's outbound queue:
\*   select { case client.Send <- msg: ... default: ... }
TrySend(r, m) ==
    /\ client[r] # NoClient
    /\ IF Len(client[r].Send) < SendCap
          THEN /\ client' = [client EXCEPT ![r].Send = Append(@, m)]
               /\ sendResult' = [sendResult EXCEPT ![r] = "queued"]
          ELSE /\ sendResult' = [sendResult EXCEPT ![r] = "full"]
               /\ UNCHANGED client
    /\ UNCHANGED <<connOpen, closeCalls, created, spawned>>
    /\ UNCHANGED httpVars
    /\ UNCHANGED loopVars
    /\ UNCHANGED peerVars
    /\ UNCHANGED <<wiring, used>>

\* ---------------------------------------------------------- specifications

\* The connections served concurrently, with a MessageHandler that leaves
\* the outbound queues alone.
Next ==
    \/ \E r \in Requests : ServeHTTP(r)
    \/ \E r \in Requests : HandleClient(r)
    \/ \E r \in Requests, f \in Frames : PeerSend(r, f)

Spec == Init /\ [][Next]_vars

\* One connection whose MessageHandler (or any other holder of the Client)
\* enqueues on client.Send, as often as it likes.
NextSend ==
    \/ ServeHTTP(1)
    \/ HandleClient(1)
    \/ \E f \in Frames : PeerSend(1, f)
    \/ \E m \in Messages : TrySend(1, m)

SpecSend == Init /\ [][NextSend]_vars

\* The same, with both goroutines of the core scheduled fairly: every
\* goroutine the code starts keeps taking its steps.
FairSend == SpecSend /\ WF_vars(ServeHTTP(1)) /\ WF_vars(HandleClient(1))

\* One connection of a handler built from any collaborators, whose
\* MessageHandler may also fail on its EnvelopePersister.
NextOne ==
    \/ ServeHTTP(1)
    \/ HandleClient(1)
    \/ HandlePersisterError(1)
    \/ \E f \in Frames : PeerSend(1, f)

SpecOne == InitAny /\ [][NextOne]_vars

\* One connection whose read-loop goroutine is scheduled fairly and whose
\* MessageHandler returns: the goroutine takes its next step whenever it
\* has one.  Nothing is assumed of the peer or of ServeHTTP.
FairLoop == SpecOne /\ WF_vars(HandleClient(1))

\* One connection whose ServeHTTP goroutine is scheduled fairly and whose
\* SessionValidator and Upgrader return.  Nothing is assumed of the read
\* loop: it may stay in ReadMessage or in Handle for ever.
FairServe == SpecOne /\ WF_vars(ServeHTTP(1))

\* ------------------------------------------------------------------ claims

\* The request was rejected by the SessionValidator.
Rejected(r) == serveErr[r] = "validate"

\* The handshake of a validated request failed.
UpgradeFailed(r) == serveErr[r] = "upgrade"

\* ServeHTTP accepted the request: validation and handshake succeeded and
\* the statements after the handshake have run.
Accepted(r) == hpc[r] \in {"return", "done"} /\ status[r] = StatusSwitchingProtocols

\* No Client, no read loop, no handler call and no transport for request r.
NothingStarted(r) ==
    /\ client[r] = NoClient
    /\ created[r] = 0
    /\ spawned[r] = 0
    /\ lpc[r] = "none"
    /\ handleLog[r] = <<>>
    /\ ~connOpen[r]
    /\ closeCalls[r] = 0

\* C1: whenever Validate returned an error, ServeHTTP has answered 401 and
\* stopped: no upgrade, no Client, no read loop, no MessageHandler call.
C1_RejectedStops ==
    \A r \in Requests :
        Rejected(r) =>
            /\ status[r] = StatusUnauthorized
            /\ hpc[r] = "done"
            /\ NothingStarted(r)

C1_Witness ==
    \E r \in Requests : Rejected(r) /\ hpc[r] = "done"

\* C2: after a successful validation and handshake exactly one Client
\* exists, named with the ClientID the validator returned, and exactly one
\* read loop was started for it; never more than one of either.
C2_OneClientWithSessionIdentity ==
    \A r \in Requests :
        /\ created[r] <= 1
        /\ spawned[r] <= 1
        /\ Accepted(r) =>
              /\ created[r] = 1
              /\ spawned[r] = 1
              /\ lpc[r] # "none"
              /\ client[r] # NoClient
              /\ client[r].ID = session[r]
              /\ client[r].Conn = r

C2_Witness ==
    \E r \in Requests : Accepted(r) /\ session[r] = 1 /\ client[r].ID = 1

\* The connection of request r has ended: both ServeHTTP and the read loop
\* are through.
Ended(r) == hpc[r] = "done" /\ lpc[r] = "done"

\* C3: Conn.Close is called exactly once per accepted connection: never
\* twice, and once by the time the connection has ended.
C3_ClosedExactlyOnce ==
    \A r \in Requests :
        /\ closeCalls[r] <= 1
        /\ Ended(r) => closeCalls[r] = 1

\* C4: the transport of an accepted connection is closed only after a read
\* on it has failed; ServeHTTP returning does not close it.
C4_ClosedOnlyAfterReadFailure ==
    \A r \in Requests :
        (closeCalls[r] > 0 \/ (client[r] # NoClient /\ ~connOpen[r]))
            => err[r] = "read"

\* A sequence without its last element.
Front(q) == SubSeq(q, 1, Len(q) - 1)

\* C5: the MessageHandler has been invoked with exactly the frames read so
\* far, each once and in the order read (all of them, but for the frame
\* just read whose Handle call is the loop's next statement), whatever the
\* earlier Handle calls returned.
C5_HandledInReadOrder ==
    \A r \in Requests :
        handleLog[r] = IF lpc[r] = "handle" THEN Front(readLog[r]) ELSE readLog[r]

C5_Witness ==
    \E r \in Requests :
        /\ Len(handleLog[r]) = 2
        /\ handleLog[r][1] # handleLog[r][2]
        /\ handleLog[r] = readLog[r]
        /\ err[r] = "handler"

\* C6: a step in which Handle returns an error leaves the read loop at its
\* next ReadMessage and makes no Close call on the transport.
C6_HandlerErrorKeepsLoop ==
    [][\A r \in Requests :
          (lpc[r] = "handle" /\ err'[r] = "handler") =>
              /\ lpc'[r] = "read"
              /\ connOpen'[r] = connOpen[r]
              /\ closeCalls'[r] = closeCalls[r]]_vars

C6_Witness ==
    \E r \in Requests :
        /\ lpc[r] = "read"
        /\ err[r] = "handler"
        /\ connOpen[r]
        /\ closeCalls[r] = 0

\* An HTTP error status.
IsErrorStatus(s) == s >= 400

\* C7: whenever the handshake of a validated request failed, ServeHTTP has
\* answered with an error status and stopped: no Client, no read loop, no
\* MessageHandler call.
C7_UpgradeFailureStops ==
    \A r \in Requests :
        UpgradeFailed(r) =>
            /\ IsErrorStatus(status[r])
            /\ hpc[r] = "done"
            /\ NothingStarted(r)

C7_Witness ==
    \E r \in Requests :
        UpgradeFailed(r) /\ session[r] # NoSession /\ hpc[r] = "done"

\* A Client that exists and whose read loop has not finished.
Live(r) == client[r] # NoClient /\ lpc[r] # "done"

\* C8: no two live Clients have equal IDs.
C8_UniqueIdentity ==
    \A r1, r2 \in Requests :
        (r1 # r2 /\ Live(r1) /\ Live(r2)) => client[r1].ID # client[r2].ID

\* C9: an outbound queue never holds more than SendCap messages; a producer's
\* non-blocking send can always be taken (it never waits); and a send made
\* on a queue at capacity reports "full" and leaves the queue as it was.
C9_SendBoundedFailFast ==
    /\ [](\A r \in Requests :
            /\ Len(client[r].Send) <= SendCap
            /\ client[r] # NoClient => \A m \in Messages : ENABLED TrySend(r, m))
    /\ [][\A r \in Requests, m \in Messages :
            (Len(client[r].Send) = SendCap /\ TrySend(r, m)) =>
                /\ sendResult'[r] = "full"
                /\ client'[r] = client[r]]_vars

C9_Witness ==
    \E r \in Requests :
        /\ Len(client[r].Send) = SendCap
        /\ sendResult[r] = "full"

\* Everything the model holds about connection r.
ConnState(r) ==
    <<hpc[r], lpc[r], status[r], serveErr[r], session[r], connOpen[r],
      closeCalls[r], client[r], created[r], spawned[r], inbox[r], readLog[r],
      handleLog[r], err[r], sendResult[r]>>

\* C10: a step in which a read fails on connection a changes nothing of any
\* other connection b: its transport stays as it was and its read loop
\* stays where it was, free to read and dispatch.
C10_ReadErrorIsLocal ==
    [][\A a \in Requests :
          (lpc[a] = "read" /\ lpc'[a] = "close") =>
              \A b \in Requests \ {a} : ConnState(b)' = ConnState(b)]_vars

C10_Witness ==
    \E a, b \in Requests :
        /\ a # b
        /\ lpc[a] = "done"
        /\ err[a] = "read"
        /\ connOpen[b]
        /\ lpc[b] = "read"
        /\ Len(handleLog[b]) = 2

\* C11: whenever the handshake failed, the handler has answered with HTTP
\* 400 Bad Request.
C11_UpgradeFailureIsBadRequest ==
    \A r \in Requests :
        UpgradeFailed(r) => status[r] = StatusBadRequest

\* C12: the handler's three fields hold exactly the collaborators passed to
\* NewWebSocketHandler, each in its own field, and what ServeHTTP validates
\* with, what it hands to HandleClient and what the read loop dispatches to
\* are those same collaborators.
C12_HandlerHoldsCollaborators ==
    /\ wsh.SessionValidator = collab.validator
    /\ wsh.MessageHandler = collab.messager
    /\ wsh.EnvelopePersister = collab.persister
    /\ \A r \in Requests :
          /\ hpc[r] # "validate" => used[r].validator = collab.validator
          /\ spawned[r] > 0 =>
                /\ used[r].messager = collab.messager
                /\ used[r].persister = collab.persister
          /\ handleLog[r] # <<>> => used[r].handledBy = collab.messager

C12_Witness ==
    \E r \in Requests :
        /\ collab = [validator |-> "validator2", messager |-> "handler2",
                     persister |-> "persister1"]
        /\ used[r].validator = "validator2"
        /\ used[r].persister = "persister1"
        /\ used[r].handledBy = "handler2"

\* C13: once a read has failed on a connection, its read loop eventually
\* exits and the transport is closed.
C13_FailedReadLeadsToClosed ==
    \A r \in Requests :
        (err[r] = "read") ~> (lpc[r] = "done" /\ ~connOpen[r] /\ closeCalls[r] > 0)

C13_Witness ==
    \E r \in Requests :
        /\ err[r] = "read"
        /\ lpc[r] = "done"
        /\ ~connOpen[r]
        /\ handleLog[r] # <<>>

\* C14: the step in which a read fails invokes no handler, and from then on
\* the loop neither reads from the transport nor invokes the handler: it
\* is past its loop for good.
C14_NoReadAfterFailedRead ==
    [][\A r \in Requests :
          ((lpc[r] = "read" /\ err'[r] = "read") \/ err[r] = "read") =>
              /\ handleLog'[r] = handleLog[r]
              /\ readLog'[r] = readLog[r]
              /\ Len(inbox'[r]) >= Len(inbox[r])
              /\ err'[r] = "read"
              /\ lpc'[r] \in {"close", "done"}]_vars

C14_Witness ==
    \E r \in Requests :
        /\ err[r] = "read"
        /\ lpc[r] = "done"
        /\ inbox[r] # <<>>
        /\ Len(handleLog[r]) = 1

\* C15: the ServeHTTP call of a request eventually returns, on the reject
\* path, on the failed-handshake path and on the accept path, whether or
\* not the read loop it spawned ever moves.
C15_ServeHTTPReturns ==
    <>(hpc[1] = "done")

C15_Witness ==
    /\ hpc[1] = "done"
    /\ lpc[1] = "handle"
    /\ handleLog[1] = <<>>

\* C16: the outbound queue of a connection is drained by its consumer, so
\* every message enqueued on an active connection is eventually taken off
\* the queue.  In particular a queue that is full while its connection is
\* active (all its messages were enqueued on the active connection, and no
\* producer can add to it) eventually has room again.
C16_SendEventuallyDrained ==
    \A r \in Requests :
        (Live(r) /\ connOpen[r] /\ Len(client[r].Send) = SendCap)
            ~> (Len(client[r].Send) < SendCap)

\* C17: the core never calls the EnvelopePersister itself, and a step in
\* which Handle returns a persister error leaves the read loop at its next
\* ReadMessage with the transport as it was: no Close call, no retry.
C17_PersisterErrorKeepsLoop ==
    [][\A r \in Requests :
          /\ used'[r].corePersisterCalls = 0
          /\ (lpc[r] = "handle" /\ err'[r] = "persister") =>
                /\ lpc'[r] = "read"
                /\ connOpen'[r] = connOpen[r]
                /\ closeCalls'[r] = closeCalls[r]]_vars

C17_Witness ==
    \E r \in Requests :
        /\ lpc[r] = "read"
        /\ err[r] = "persister"
        /\ connOpen[r]
        /\ closeCalls[r] = 0
        /\ used[r].persister = collab.persister
        /\ used[r].corePersisterCalls = 0

\* Handle calls of connection r that were made for a frame read and have
\* not returned yet.
InFlight(r) == Len(readLog[r]) - Len(handleLog[r])

\* C18: a connection has at most one core reader, at most one Handle call
\* is outstanding at any time, and while the loop is at a ReadMessage (or
\* past the loop) none is: the next read is issued only after the previous
\* Handle call has returned.
C18_HandleAndReadNeverOverlap ==
    \A r \in Requests :
        /\ spawned[r] <= 1
        /\ InFlight(r) \in {0, 1}
        /\ InFlight(r) = 1 <=> lpc[r] = "handle"

C18_Witness ==
    \E r \in Requests :
        /\ lpc[r] = "handle"
        /\ Len(readLog[r]) = 2
        /\ Len(handleLog[r]) = 1

====
